---------------------------- MODULE Spec2Model ----------------------------
(***************************************************************************)
(* A model of two parts of the HAL library:                                *)
(*                                                                         *)
(*   - the memory-mapped store (api/mmap_impl/mmapFile.h): header, bump    *)
(*     allocation, offset resolution, dirty flag;                          *)
(*   - the lift-over engine (liftover/impl/halLiftover.cpp): per-record    *)
(*     processing, block assembly, compatibility, flipping, insert counts. *)
(*                                                                         *)
(* size_t is modelled as a SizeBits-bit unsigned integer: every size_t     *)
(* operation is taken modulo Modulus.                                      *)
(***************************************************************************)
EXTENDS Integers, Sequences, FiniteSets, TLC

(***************************************************************************)
(* Bounds of the model.                                                    *)
(***************************************************************************)
\* width of size_t in the model, in bits
SizeBits == 4
\* sizeof(MMapHeader) in the model, in bytes, before rounding
SizeofHeader == 3
\* the largest file size a file is created with
MaxFileSize == 10
\* the length of the sequence of the source genome
SeqLen == 4
\* the warnings about one missing sequence after which a session stops reading
MaxWarnings == 2

(***************************************************************************)
(* Program constants.                                                      *)
(***************************************************************************)
\* sizeof(size_t), the alignment unit of alignRound (an ILP32 build)
WordSize == 4
\* MMAP_NULL_OFFSET
MMAP_NULL_OFFSET == 0
\* NULL_INDEX
NULL_INDEX == -1

Modulus == 2 ^ SizeBits
\* numeric_limits<hal_index_t>::max()
MaxIndex == (Modulus \div 2) - 1
SizeT == 0 .. (Modulus - 1)
\* the sizes a file is created with: a word multiple and sizes that are not
FileSizes == (MaxFileSize - 2) .. MaxFileSize

VARIABLES
    fileSize,   \* _fileSize: the size of the file (0: no file yet)
    header,     \* *_header: [nextOffset, rootOffset, dirty], kept in the file
    mode,       \* the handle: "closed" (no handle), "read" or "write"
    mustFetch,  \* _mustFetch of the handle
    lastRet,    \* the offset the latest successful allocMem of this session returned
    lastSize,   \* the size that allocMem call asked for
    last,       \* the last operation: [op, arg, isRoot, res, ret]
    conf,         \* the session: [active, outPSL, outPSLWithName]
    alignment,    \* the alignment convert() was given
    missedSet,    \* _missedSet
    warned,       \* the warnings of this session about each missing sequence
    bedLine,      \* _bedLine
    mappedBlocks, \* _mappedBlocks
    outBedLines,  \* _outBedLines
    lineOut,      \* the last step: [op, inLine, status, warnings, liftCalls, written]
    compat,       \* a call of compatible: [phase, in, result]
    asg           \* a call of assignBlocksToIntervals: [phase, outPSL, strand, mapped, ...]

mvars == <<fileSize, header, mode, mustFetch, lastRet, lastSize, last>>

lvars == <<conf, alignment, missedSet, warned, bedLine, mappedBlocks, outBedLines, lineOut>>

vars == <<mvars, lvars, compat, asg>>

\* no offset returned yet in this session: a value no size_t has
NoOffset == Modulus

(***************************************************************************)
(* The mapped store.                                                       *)
(***************************************************************************)

\* alignRound without the rounding
alignRound_NoRound(size) == size

\* MMapFile::alignRound: round up to the alignment size, in size_t arithmetic
alignRound(size) ==
    ((((size + (WordSize - 1)) % Modulus) \div WordSize) * WordSize) % Modulus

\* the header createHeader() writes into a new (zero-filled) file
createHeader ==
    [nextOffset |-> alignRound(SizeofHeader),
     rootOffset |-> MMAP_NULL_OFFSET,
     dirty |-> TRUE]

\* loadHeader without the dirty test
loadHeader_NoDirtyCheck(h, markDirty) ==
    [res |-> "ok", header |-> [h EXCEPT !.dirty = h.dirty \/ markDirty]]

\* loadHeader(markDirty): a dirty file is refused, a write handle marks it dirty
loadHeader(h, markDirty) ==
    IF h.dirty
    THEN [res |-> "DirtyOnOpen", header |-> h]
    ELSE [res |-> "ok", header |-> [h EXCEPT !.dirty = markDirty]]

\* validateWriteAccess(): the handle must have WRITE_ACCESS
validateWriteAccess(md) == md = "write"

\* allocMem recording the root before the capacity test
allocMem_RootBeforeCheck(h, fsz, md, size, isRoot) ==
    LET h1 == [h EXCEPT !.rootOffset = IF isRoot /\ md = "write" THEN h.nextOffset ELSE @] IN
    IF md # "write"
    THEN [res |-> "NotWritable", header |-> h1, ret |-> 0]
    ELSE IF (h.nextOffset + size) % Modulus > fsz
    THEN [res |-> "CapacityExceeded", header |-> h1, ret |-> 0]
    ELSE [res |-> "ok",
          ret |-> h.nextOffset,
          header |-> [h1 EXCEPT
                        !.nextOffset = (h.nextOffset + alignRound(size)) % Modulus]]

\* allocMem keeping the first root registered
allocMem_KeepFirstRoot(h, fsz, md, size, isRoot) ==
    IF md # "write"
    THEN [res |-> "NotWritable", header |-> h, ret |-> 0]
    ELSE IF (h.nextOffset + size) % Modulus > fsz
    THEN [res |-> "CapacityExceeded", header |-> h, ret |-> 0]
    ELSE [res |-> "ok",
          ret |-> h.nextOffset,
          header |-> [h EXCEPT
                        !.nextOffset = (h.nextOffset + alignRound(size)) % Modulus,
                        !.rootOffset = IF isRoot /\ @ = MMAP_NULL_OFFSET
                                       THEN h.nextOffset ELSE @]]

\* MMapFile::allocMem(size, isRoot) on header h of a file of fsz bytes
allocMem(h, fsz, md, size, isRoot) ==
    IF ~validateWriteAccess(md)
    THEN [res |-> "NotWritable", header |-> h, ret |-> 0]
    ELSE IF (h.nextOffset + size) % Modulus > fsz
    THEN [res |-> "CapacityExceeded", header |-> h, ret |-> 0]
    ELSE [res |-> "ok",
          ret |-> h.nextOffset,
          header |-> [h EXCEPT
                        !.nextOffset = (h.nextOffset + alignRound(size)) % Modulus,
                        !.rootOffset = IF isRoot THEN h.nextOffset ELSE @]]

\* toPtr with a bounds test against nextOffset
toPtr_Checked(h, mf, offset) ==
    IF offset >= h.nextOffset
    THEN [res |-> "InvalidOffset", ret |-> 0, fetched |-> FALSE]
    ELSE [res |-> "ptr", ret |-> offset, fetched |-> mf]

\* MMapFile::toPtr(offset, accessSize): the address returned, as its distance
\* from _basePtr, and whether the prefetch hook ran first
toPtr(h, mf, offset) ==
    [res |-> "ptr", ret |-> offset, fetched |-> mf]

\* MMapFile::getRootOffset(): whether its assertion holds, and what it returns
getRootOffset(h) == [ok |-> h.rootOffset > 0, ret |-> h.rootOffset]

Idle == [op |-> "none", arg |-> 0, isRoot |-> FALSE, res |-> "ok", ret |-> 0]

MInitVars ==
    /\ fileSize = 0
    /\ header = [nextOffset |-> 0, rootOffset |-> 0, dirty |-> FALSE]
    /\ mode = "closed"
    /\ mustFetch = FALSE
    /\ lastRet = NoOffset
    /\ lastSize = 0
    /\ last = Idle

\* open(path, write, fsz) of a new file: create it and write its header
Create(fsz, mf) ==
    /\ fileSize = 0
    /\ mode = "closed"
    /\ fileSize' = fsz
    /\ header' = createHeader
    /\ mode' = "write"
    /\ mustFetch' = mf
    /\ lastRet' = NoOffset
    /\ lastSize' = 0
   
    /\ last' = [Idle EXCEPT !.op = "create", !.arg = fsz]

\* open(path, md) of the existing file, while no handle or a writer holds it
Open(md, mf) ==
    /\ fileSize > 0
    /\ mode \in {"closed", "write"}
    /\ LET r == loadHeader(header, md = "write") IN
        /\ header' = r.header
        /\ last' = [Idle EXCEPT !.op = "open", !.isRoot = (md = "write"), !.res = r.res]
        /\ IF r.res = "ok"
           THEN mode' = md /\ mustFetch' = mf /\ lastRet' = NoOffset /\ lastSize' = 0
           ELSE UNCHANGED <<mode, mustFetch, lastRet, lastSize>>
    /\ UNCHANGED fileSize

\* close(): a writer's close clears the dirty flag; a reader's only unmaps
Close ==
    /\ mode # "closed"
    /\ header' = IF mode = "write" THEN [header EXCEPT !.dirty = FALSE] ELSE header
    /\ mode' = "closed"
    /\ last' = [Idle EXCEPT !.op = "close"]
    /\ UNCHANGED <<fileSize, mustFetch, lastRet, lastSize>>

\* the handle is dropped without close(): a crash or an error path
Crash ==
    /\ mode # "closed"
    /\ mode' = "closed"
    /\ last' = [Idle EXCEPT !.op = "crash"]
    /\ UNCHANGED <<fileSize, header, mustFetch, lastRet, lastSize>>

AllocMem(size, isRoot) ==
    /\ mode # "closed"
    /\ LET r == allocMem(header, fileSize, mode, size, isRoot) IN
        /\ header' = r.header
        /\ last' = [op |-> "alloc", arg |-> size, isRoot |-> isRoot,
                    res |-> r.res, ret |-> r.ret]
        /\ lastRet' = IF r.res = "ok" THEN r.ret ELSE lastRet
        /\ lastSize' = IF r.res = "ok" THEN size ELSE lastSize
    /\ UNCHANGED <<fileSize, mode, mustFetch>>

\* toPtr on an offset inside the mapping (or one past its end)
ToPtr(offset) ==
    /\ mode # "closed"
    /\ LET r == toPtr(header, mustFetch, offset) IN
        last' = [op |-> "toPtr", arg |-> offset, isRoot |-> r.fetched,
                 res |-> r.res, ret |-> r.ret]
    /\ UNCHANGED <<fileSize, header, mode, mustFetch, lastRet, lastSize>>

\* getRootOffset(): the assertion aborts a debug build when no root is set; a
\* build with NDEBUG returns the null offset
GetRootOffset ==
    /\ mode # "closed"
    /\ \/ /\ getRootOffset(header).ok
          /\ last' = [Idle EXCEPT !.op = "getRootOffset", !.ret = getRootOffset(header).ret]
       \/ /\ ~getRootOffset(header).ok
          /\ last' = [Idle EXCEPT !.op = "getRootOffset", !.res = "AssertionFailed"]
       \/ /\ ~getRootOffset(header).ok
          /\ last' = [Idle EXCEPT !.op = "getRootOffset", !.ret = getRootOffset(header).ret]
    /\ UNCHANGED <<fileSize, header, mode, mustFetch, lastRet, lastSize>>

(***************************************************************************)
(* The lift-over engine.                                                   *)
(*                                                                         *)
(* A BedLine is a record [chrName, start, end, strand, bedType,            *)
(* thickStart, thickEnd, blocks, srcStart, psl]: blocks is a sequence of   *)
(* BedBlocks [start, length], psl holds no or one PSLInfo.                 *)
(***************************************************************************)
Min(a, b) == IF a <= b THEN a ELSE b
Max(a, b) == IF a >= b THEN a ELSE b

Reverse(s) == [i \in 1 .. Len(s) |-> s[Len(s) + 1 - i]]
Back(s) == s[Len(s)]

FlipStrand(c) == IF c = "+" THEN "-" ELSE "+"

\* the name of the one sequence of the source genome, and the names no
\* sequence of the source genome has
KnownChrom == "chr1"
UnknownChroms == {"chrX", "chrY"}
Chroms == {KnownChrom} \cup UnknownChroms

\* Genome::getSequence(chrName): the length of the sequence, NoSequence for NULL
NoSequence == NULL_INDEX
getSequence(chrName) == IF chrName = KnownChrom THEN SeqLen ELSE NoSequence

\* a line as the scanner hands it to visitLine
InputLine(chr, s, e, strand, bedType, thick, blocks) ==
    [chrName |-> chr, start |-> s, end |-> e, strand |-> strand,
     bedType |-> bedType,
     thickStart |-> IF thick THEN s ELSE 0,
     thickEnd |-> IF thick THEN e ELSE 0,
     blocks |-> blocks, srcStart |-> NULL_INDEX, psl |-> <<>>]

\* the _bedLine of an engine that has read no line yet
NoLine == InputLine(KnownChrom, 0, 0, "+", 3, FALSE, <<>>)

\* BedLine::expandToBed12(): one block covering the record
expandToBed12(b) ==
    [b EXCEPT !.bedType = 12,
              !.blocks = <<[start |-> 0, length |-> b.end - b.start]>>]

\* the PSLInfo liftInterval attaches to a piece of len bases in structured mode
newPSLInfo(b, len) ==
    [matches |-> len, misMatches |-> 0, repMatches |-> 0, nCount |-> 0,
     qNumInsert |-> 0, qBaseInsert |-> 0, tNumInsert |-> 0, tBaseInsert |-> 0,
     qStrand |-> b.strand, qEnd |-> 0, qBlockStarts |-> <<>>]

\* the piece of alignment block ab (source [src, src+len) onto tchr at tstart,
\* reversed or not) that the window [b.start, b.end) of the line b maps to
liftPiece(outPSL, ab, b) ==
    LET s == Max(ab.src, b.start)
        e == Min(ab.src + ab.len, b.end)
        t == IF ab.rev THEN ab.tstart + ((ab.src + ab.len) - e)
                       ELSE ab.tstart + (s - ab.src)
    IN  [chrName |-> ab.tchr, start |-> t, end |-> t + (e - s),
         strand |-> IF ab.rev THEN FlipStrand(b.strand) ELSE b.strand,
         bedType |-> b.bedType,
         thickStart |-> b.thickStart, thickEnd |-> b.thickEnd,
         blocks |-> <<>>, srcStart |-> s,
         psl |-> IF outPSL THEN <<newPSLInfo(b, e - s)>> ELSE <<>>]

\* liftInterval(mappedBedLines): the pieces the window [b.start, b.end) of the
\* source sequence maps to under the alignment al, in the alignment's order
RECURSIVE liftInterval(_, _, _)
liftInterval(outPSL, al, b) ==
    IF al = <<>> THEN <<>>
    ELSE (IF Max(Head(al).src, b.start) < Min(Head(al).src + Head(al).len, b.end)
          THEN <<liftPiece(outPSL, Head(al), b)>>
          ELSE <<>>) \o liftInterval(outPSL, Tail(al), b)

\* list::sort(BedLineSrcLess()): a stable sort by _srcStart
RECURSIVE sortBySrcStart(_)
sortBySrcStart(s) ==
    IF Len(s) <= 1 THEN s
    ELSE LET t == sortBySrcStart(SubSeq(s, 1, Len(s) - 1))
             x == s[Len(s)]
             p == Cardinality({i \in 1 .. Len(t) : t[i].srcStart <= x.srcStart})
         IN  SubSeq(t, 1, p) \o <<x>> \o SubSeq(t, p + 1, Len(t))

\* std::sort of the BedBlocks (BedBlock::operator< compares _start)
RECURSIVE sortBlocks(_)
sortBlocks(s) ==
    IF Len(s) <= 1 THEN s
    ELSE LET t == sortBlocks(SubSeq(s, 1, Len(s) - 1))
             x == s[Len(s)]
             p == Cardinality({i \in 1 .. Len(t) : t[i].start <= x.start})
         IN  SubSeq(t, 1, p) \o <<x>> \o SubSeq(t, p + 1, Len(t))

\* compatible without the test of the distance on the target
compatible_NoDelta(strand, tgtBed, newBlock) ==
    /\ tgtBed.strand = newBlock.strand
    /\ tgtBed.srcStart # newBlock.srcStart
    /\ tgtBed.chrName = newBlock.chrName

\* compatible with the distance always taken as on the strand of the line
compatible_ForwardDelta(strand, tgtBed, newBlock) ==
    /\ tgtBed.strand = newBlock.strand
    /\ tgtBed.srcStart # newBlock.srcStart
    /\ newBlock.start - (Back(tgtBed.blocks).start + Back(tgtBed.blocks).length) >= 0
    /\ tgtBed.chrName = newBlock.chrName

\* Liftover::compatible(tgtBed, newBlock), strand being _bedLine._strand
compatible(strand, tgtBed, newBlock) ==
    IF tgtBed.strand # newBlock.strand THEN FALSE
    ELSE IF tgtBed.srcStart = newBlock.srcStart THEN FALSE
    ELSE LET tgtBlock == Back(tgtBed.blocks)
             delta == IF tgtBed.strand # strand
                      THEN tgtBlock.start - newBlock.end
                      ELSE newBlock.start - (tgtBlock.start + tgtBlock.length)
         IN  IF delta < 0 THEN FALSE
             ELSE IF tgtBed.chrName # newBlock.chrName THEN FALSE
             ELSE TRUE

\* the dupe test of assignBlocksToIntervals for mapped block i of mb
isDupe(mb, i, prevSrcBlockEnd) ==
    \/ mb[i].srcStart < prevSrcBlockEnd
    \/ (i < Len(mb) /\ mb[i + 1].srcStart < mb[i].srcStart + (mb[i].end - mb[i].start))

\* openRecord that does not look at duplicates
openRecord_NoDupeFilter(outPSL, strand, out, blk, dupe) ==
    IF out = <<>> \/ ~compatible(strand, Back(out), blk)
    THEN Append(out, blk)
    ELSE out

\* openRecord that filters duplicates in every mode
openRecord_DupeAlways(outPSL, strand, out, blk, dupe) ==
    IF out = <<>> \/ dupe \/ ~compatible(strand, Back(out), blk)
    THEN Append(out, blk)
    ELSE out

\* _outBedLines after the push_back of assignBlocksToIntervals, if any
openRecord(outPSL, strand, out, blk, dupe) ==
    IF out = <<>> \/ (outPSL /\ dupe) \/ ~compatible(strand, Back(out), blk)
    THEN Append(out, blk)
    ELSE out

\* tgtBed with the span and the block of blk, block start absolute
extendBed(bed, blk) ==
    [bed EXCEPT !.start = Min(@, blk.start),
                !.end = Max(@, blk.end),
                !.blocks = Append(@, [start |-> blk.start,
                                      length |-> blk.end - blk.start])]

\* the PSLInfo of tgtBed (which has the block of blk already) with the query
\* start of blk, and with its counters when it is not the first block
addPSL(bed, blk) ==
    [bed EXCEPT !.psl = <<[@[1] EXCEPT
        !.qBlockStarts = Append(@, blk.srcStart),
        !.matches = IF Len(bed.blocks) > 1 THEN @ + blk.psl[1].matches ELSE @,
        !.misMatches = IF Len(bed.blocks) > 1 THEN @ + blk.psl[1].misMatches ELSE @,
        !.repMatches = IF Len(bed.blocks) > 1 THEN @ + blk.psl[1].repMatches ELSE @,
        !.nCount = IF Len(bed.blocks) > 1 THEN @ + blk.psl[1].nCount ELSE @]>>]

\* tgtBed after blk was added to it
addBlock(outPSL, bed, blk) ==
    IF outPSL THEN addPSL(extendBed(bed, blk), blk) ELSE extendBed(bed, blk)

\* _outBedLines with blk added to its last record
addToBack(outPSL, out, blk) ==
    [out EXCEPT ![Len(out)] = addBlock(outPSL, @, blk)]

\* one round of the loop of assignBlocksToIntervals: mapped block i of mb
assignBlock(outPSL, strand, mb, i, out, prevSrcBlockEnd) ==
    addToBack(outPSL,
              openRecord(outPSL, strand, out, mb[i], isDupe(mb, i, prevSrcBlockEnd)),
              mb[i])

\* the first loop of assignBlocksToIntervals over the sorted mapped blocks
RECURSIVE assignFrom(_, _, _, _, _, _)
assignFrom(outPSL, strand, mb, i, out, prevSrcBlockEnd) ==
    IF i > Len(mb) THEN out
    ELSE assignFrom(outPSL, strand, mb, i + 1,
                    assignBlock(outPSL, strand, mb, i, out, prevSrcBlockEnd),
                    mb[i].srcStart + (mb[i].end - mb[i].start))

\* the second loop of assignBlocksToIntervals: block starts relative to _start
relativize(bed) ==
    [bed EXCEPT !.blocks = [i \in 1 .. Len(bed.blocks) |->
                              [bed.blocks[i] EXCEPT !.start = @ - bed.start]]]

\* flipBlocks with the rule of interval-only output in both modes
flipBlocksOf_IntervalRule(outPSL, bed) ==
    IF Len(bed.blocks) > 1
         /\ bed.blocks[2].start - (bed.blocks[1].start + bed.blocks[1].length) < 0
    THEN [bed EXCEPT
            !.blocks = Reverse(@),
            !.psl = IF outPSL
                    THEN <<[@[1] EXCEPT !.qBlockStarts = Reverse(@)]>>
                    ELSE @]
    ELSE bed

\* flipBlocks that reverses every structured record of strand '-'
flipBlocksOf_FlipMinus(outPSL, bed) ==
    IF Len(bed.blocks) > 1 /\ outPSL /\ bed.strand = "-"
    THEN [bed EXCEPT
            !.blocks = Reverse(@),
            !.psl = <<[@[1] EXCEPT !.qBlockStarts = Reverse(@)]>>]
    ELSE bed

\* Liftover::flipBlocks on one record
flipBlocksOf(outPSL, bed) ==
    IF Len(bed.blocks) > 1
    THEN LET delta == bed.blocks[2].start
                        - (bed.blocks[1].start + bed.blocks[1].length)
             mustFlip == IF ~outPSL
                         THEN delta < 0
                         ELSE \/ (bed.strand = "-" /\ delta >= 0)
                              \/ (bed.strand # "-" /\ delta < 0)
         IN  IF mustFlip
             THEN [bed EXCEPT
                     !.blocks = Reverse(@),
                     !.psl = IF outPSL
                             THEN <<[@[1] EXCEPT !.qBlockStarts = Reverse(@)]>>
                             ELSE @]
             ELSE bed
    ELSE bed

\* Liftover::flipBlocks(bedList)
flipBlocks(outPSL, bedList) ==
    [k \in 1 .. Len(bedList) |-> flipBlocksOf(outPSL, bedList[k])]

\* pslInsertStep without the swaps for the strand '-'
pslInsertStep_NoSwap(bed, psl, i) ==
    [psl EXCEPT
       !.tNumInsert =
          IF (bed.blocks[i].start
                - (bed.blocks[i - 1].start + bed.blocks[i - 1].length)) % Modulus > 0
          THEN @ + 1 ELSE @,
       !.tBaseInsert =
          (@ + ((bed.blocks[i].start
                   - (bed.blocks[i - 1].start + bed.blocks[i - 1].length)) % Modulus))
            % Modulus,
       !.qNumInsert =
          IF psl.qBlockStarts[i] > psl.qBlockStarts[i - 1] + bed.blocks[i - 1].length
          THEN @ + 1 ELSE @,
       !.qBaseInsert =
          IF psl.qBlockStarts[i] > psl.qBlockStarts[i - 1] + bed.blocks[i - 1].length
          THEN (@ + psl.qBlockStarts[i]
                  - (psl.qBlockStarts[i - 1] + bed.blocks[i - 1].length)) % Modulus
          ELSE @]

\* one round of the loop of computePSLInserts: the pair of blocks i - 1 and i
\* (blockPrev and blockIt), with the iterators swapped as the strands ask;
\* gap is a hal_size_t
pslInsertStep(bed, psl, i) ==
    LET tIt == IF bed.strand = "-" THEN i - 1 ELSE i
        tPrev == IF bed.strand = "-" THEN i ELSE i - 1
        tgap == (bed.blocks[tIt].start
                   - (bed.blocks[tPrev].start + bed.blocks[tPrev].length)) % Modulus
        psl1 == IF tgap > 0
                THEN [psl EXCEPT !.tNumInsert = @ + 1,
                                 !.tBaseInsert = (@ + tgap) % Modulus]
                ELSE psl
        qIt == IF psl.qStrand = "-" THEN i - 1 ELSE i
        qPrev == IF psl.qStrand = "-" THEN i ELSE i - 1
        qPrevEnd == psl.qBlockStarts[qPrev] + bed.blocks[qPrev].length
        qgap == IF psl.qBlockStarts[qIt] >= qPrevEnd
                THEN psl.qBlockStarts[qIt] - qPrevEnd
                ELSE 0
    IN  IF qgap > 0
        THEN [psl1 EXCEPT !.qNumInsert = @ + 1,
                          !.qBaseInsert = (@ + qgap) % Modulus]
        ELSE psl1

RECURSIVE pslInsertsFrom(_, _, _)
pslInsertsFrom(bed, psl, i) ==
    IF i > Len(bed.blocks) THEN psl
    ELSE pslInsertsFrom(bed, pslInsertStep(bed, psl, i), i + 1)

\* Liftover::computePSLInserts on one record
computePSLInsertsOf(bed) ==
    LET psl0 == [bed.psl[1] EXCEPT !.qNumInsert = 0, !.qBaseInsert = 0,
                                   !.tNumInsert = 0, !.tBaseInsert = 0]
    IN  [bed EXCEPT !.psl = <<pslInsertsFrom(bed, psl0, 2)>>]

\* Liftover::computePSLInserts(bedList)
computePSLInserts(bedList) ==
    [k \in 1 .. Len(bedList) |-> computePSLInsertsOf(bedList[k])]

\* the second loop of assignBlocksToIntervals
relativizeAll(out) == [k \in 1 .. Len(out) |-> relativize(out[k])]

\* flipBlocks if _outBedLines is not empty, then computePSLInserts if _outPSL
flipAndCount(outPSL, out) ==
    IF out = <<>> THEN out
    ELSE IF outPSL THEN computePSLInserts(flipBlocks(outPSL, out))
    ELSE flipBlocks(outPSL, out)

\* Liftover::assignBlocksToIntervals(): _outBedLines (empty on entry) from
\* _mappedBlocks (which it sorts), strand being _bedLine._strand
assignBlocksToIntervals(outPSL, strand, mapped, outLines) ==
    [mappedBlocks |-> sortBySrcStart(mapped),
     outBedLines |->
        flipAndCount(outPSL,
            relativizeAll(assignFrom(outPSL, strand, sortBySrcStart(mapped), 1,
                                     outLines, NULL_INDEX)))]

\* the loop of liftBlockIntervals from block i on: the mapped blocks and the
\* windows handed to liftInterval
RECURSIVE liftBlocksFrom(_, _, _, _, _)
liftBlocksFrom(outPSL, al, b, original, i) ==
    IF i > Len(b.blocks) THEN [mapped |-> <<>>, calls |-> <<>>]
    ELSE LET s == b.blocks[i].start + original.start
             e == s + b.blocks[i].length
             rest == liftBlocksFrom(outPSL, al, b, original, i + 1)
         IN  IF e > s
             THEN [mapped |-> liftInterval(outPSL, al,
                                  [b EXCEPT !.start = s, !.end = e]) \o rest.mapped,
                   calls |-> <<[start |-> s, end |-> e]>> \o rest.calls]
             ELSE rest

\* Liftover::liftBlockIntervals(): _bedLine keeps its blocks sorted and gets
\* its own start and end back
liftBlockIntervals(outPSL, al, line, mapped) ==
    LET b == [line EXCEPT !.blocks = sortBlocks(@)]
        r == liftBlocksFrom(outPSL, al, b, line, 1)
    IN  [bedLine |-> b, mappedBlocks |-> mapped \o r.mapped, calls |-> r.calls]

\* qEnd and srcStart of a structured record, as cleanResults recomputes them
RECURSIVE minQStart(_, _)
minQStart(q, j) ==
    IF j > Len(q) THEN MaxIndex ELSE Min(q[j], minQStart(q, j + 1))

RECURSIVE maxQEnd(_, _, _)
maxQEnd(q, blocks, j) ==
    IF j > Len(q) THEN 0 ELSE Max(q[j] + blocks[j].length, maxQEnd(q, blocks, j + 1))

\* Liftover::cleanResults() on one line of _outBedLines that it keeps
cleanLine(outPSL, line, bed) ==
    LET b1 == IF line.thickStart # 0 \/ line.thickEnd # 0
              THEN [bed EXCEPT !.thickStart = bed.start, !.thickEnd = bed.end]
              ELSE bed
    IN  IF line.bedType > 9 /\ outPSL
        THEN [b1 EXCEPT
                !.srcStart = minQStart(b1.psl[1].qBlockStarts, 1),
                !.psl = <<[@[1] EXCEPT
                             !.qEnd = maxQEnd(b1.psl[1].qBlockStarts, b1.blocks, 1)]>>]
        ELSE b1

\* Liftover::cleanResults()
cleanResults(outPSL, line, outLines) ==
    IF line.bedType > 6
    THEN LET kept == SelectSeq(outLines,
                        LAMBDA l : ~(line.bedType > 9 /\ l.blocks = <<>>))
         IN  [k \in 1 .. Len(kept) |-> cleanLine(outPSL, line, kept[k])]
    ELSE outLines

\* Liftover::writeBlocksAsIntervals()
writeBlocksAsIntervals(mapped) == mapped

\* list::clear()
clear(list) == <<>>

\* the warning of visitLine for a sequence the source genome does not have,
\* and the one it would give without the set of missed names
missedWarning_NoDedup(missed, chrName) ==
    <<[kind |-> "missing", name |-> chrName]>>

missedWarning(missed, chrName) ==
    IF chrName \in missed THEN <<>>
    ELSE <<[kind |-> "missing", name |-> chrName]>>

\* Liftover::writeLineResults(): the lines written and their format
writeLineResults(outPSL, outLines) ==
    [format |-> IF outPSL THEN "psl" ELSE "bed", lines |-> outLines]

NothingWritten == [format |-> "none", lines |-> <<>>]

\* the return of visitLine for a line it skips
skipLine(eng, line, status, missed, warns) ==
    [bedLine |-> line, mappedBlocks |-> eng.mappedBlocks,
     outBedLines |-> clear(eng.outBedLines), missedSet |-> missed,
     status |-> status, warnings |-> warns,
     liftCalls |-> <<>>, written |-> NothingWritten]

\* visitLine from _mappedBlocks.clear() to the lift: [bedLine, mappedBlocks, calls]
liftLine(eng, line) ==
    IF line.bedType <= 9
    THEN [bedLine |-> line,
          mappedBlocks |-> clear(eng.mappedBlocks)
                             \o liftInterval(eng.outPSL, eng.alignment, line),
          calls |-> <<[start |-> line.start, end |-> line.end]>>]
    ELSE liftBlockIntervals(eng.outPSL, eng.alignment, line, clear(eng.mappedBlocks))

\* visitLine from the lift to cleanResults: [mappedBlocks, outBedLines]
assembleLine(eng, lifted) ==
    IF lifted.bedLine.bedType <= 9
    THEN [mappedBlocks |-> lifted.mappedBlocks,
          outBedLines |-> writeBlocksAsIntervals(lifted.mappedBlocks)]
    ELSE IF lifted.mappedBlocks # <<>>
    THEN assignBlocksToIntervals(eng.outPSL, lifted.bedLine.strand,
                                 lifted.mappedBlocks, clear(eng.outBedLines))
    ELSE [mappedBlocks |-> lifted.mappedBlocks, outBedLines |-> clear(eng.outBedLines)]

\* the return of visitLine for a line it lifts, _outBedLines being final
liftedLine(eng, lifted, mapped, outLines) ==
    [bedLine |-> lifted.bedLine, mappedBlocks |-> mapped,
     outBedLines |-> outLines, missedSet |-> eng.missedSet,
     status |-> "lifted", warnings |-> <<>>,
     liftCalls |-> lifted.calls,
     written |-> writeLineResults(eng.outPSL, outLines)]

\* visitLine from cleanResults on
finishLine(eng, lifted, assembled) ==
    liftedLine(eng, lifted, assembled.mappedBlocks,
               sortBySrcStart(cleanResults(eng.outPSL, lifted.bedLine,
                                           assembled.outBedLines)))

\* visitLine from _mappedBlocks.clear() on
processLine(eng, lifted) == finishLine(eng, lifted, assembleLine(eng, lifted))

\* visitLine after the expansion to BED12
visitExpanded(eng, line) ==
    IF getSequence(line.chrName) = NoSequence
    THEN skipLine(eng, line, "missing", eng.missedSet \cup {line.chrName},
                  missedWarning(eng.missedSet, line.chrName))
    ELSE IF line.end > getSequence(line.chrName)
    THEN skipLine(eng, line, "outOfRange", eng.missedSet,
                  <<[kind |-> "outOfRange", name |-> line.chrName]>>)
    ELSE IF line.bedType > 9 /\ line.blocks = <<>>
    THEN skipLine(eng, line, "emptyBlocks", eng.missedSet,
                  <<[kind |-> "emptyBlocks", name |-> line.chrName]>>)
    ELSE processLine(eng, liftLine(eng, line))

\* Liftover::visitLine() of an engine eng = [outPSL, outPSLWithName, alignment,
\* missedSet, mappedBlocks, outBedLines] on the line rec the scanner has read
visitLine(eng, rec) ==
    visitExpanded(eng, IF (eng.outPSL \/ eng.outPSLWithName) /\ rec.bedType < 12
                       THEN expandToBed12(rec)
                       ELSE rec)

(***************************************************************************)
(* The lift-over engine as a state machine: convert() starts a session,    *)
(* the scanner then hands the lines of the input to visitLine one by one.  *)
(***************************************************************************)
\* the alignments of the model, each a list of blocks that map len bases of
\* the source sequence from src on to tchr from tstart on, reversed or not
Identity == <<[src |-> 0, len |-> SeqLen, tchr |-> "tA", tstart |-> 0, rev |-> FALSE]>>

Gapped ==
    <<[src |-> 0, len |-> 2, tchr |-> "tA", tstart |-> 0, rev |-> FALSE],
      [src |-> 2, len |-> SeqLen - 2, tchr |-> "tA", tstart |-> 3, rev |-> FALSE]>>

Reversed ==
    <<[src |-> 0, len |-> 2, tchr |-> "tA", tstart |-> SeqLen - 1, rev |-> TRUE],
      [src |-> 2, len |-> SeqLen - 2, tchr |-> "tA", tstart |-> 0, rev |-> TRUE]>>

Duplicated ==
    <<[src |-> 0, len |-> 3, tchr |-> "tA", tstart |-> 0, rev |-> FALSE],
      [src |-> 1, len |-> SeqLen - 1, tchr |-> "tB", tstart |-> 0, rev |-> FALSE]>>

Alignments == {<<>>, Identity, Gapped, Reversed, Duplicated}

Block(s, l) == [start |-> s, length |-> l]

\* the input lines of the model
Records ==
    { InputLine(KnownChrom, 0, 2, "+", 3, FALSE, <<>>),
      InputLine(KnownChrom, 1, SeqLen, "-", 6, FALSE, <<>>),
      InputLine(KnownChrom, 0, SeqLen, "+", 9, TRUE, <<>>),
      InputLine(KnownChrom, 2, SeqLen + 1, "+", 3, FALSE, <<>>),
      InputLine(KnownChrom, 0, SeqLen, "+", 12, TRUE, <<>>),
      InputLine(KnownChrom, 0, SeqLen, "+", 12, TRUE,
                <<Block(0, 1), Block(2, SeqLen - 2)>>),
      InputLine(KnownChrom, 0, SeqLen, "-", 12, FALSE,
                <<Block(2, SeqLen - 2), Block(0, 1)>>),
      InputLine(KnownChrom, 0, SeqLen, "+", 12, FALSE,
                <<Block(0, 0), Block(1, 2)>>),
      InputLine(KnownChrom, 0, SeqLen, "+", 12, FALSE,
                <<Block(2, SeqLen)>>),
      InputLine(KnownChrom, 2, 2, "+", 3, FALSE, <<>>),
      InputLine("chrX", 0, 2, "+", 3, FALSE, <<>>),
      InputLine("chrX", 0, SeqLen, "+", 12, FALSE,
                <<Block(0, 1), Block(2, SeqLen - 2)>>),
      InputLine("chrY", 0, 2, "+", 3, FALSE, <<>>) }

NoOutput ==
    [op |-> "none", inLine |-> NoLine, status |-> "none", warnings |-> <<>>,
     liftCalls |-> <<>>, written |-> NothingWritten]

\* the engine as visitLine finds it
Engine ==
    [outPSL |-> conf.outPSL, outPSLWithName |-> conf.outPSLWithName,
     alignment |-> alignment, missedSet |-> missedSet,
     mappedBlocks |-> mappedBlocks, outBedLines |-> outBedLines]

\* the engine of the same session before its first line
FreshEngine ==
    [Engine EXCEPT !.missedSet = {}, !.mappedBlocks = <<>>, !.outBedLines = <<>>]

\* a Liftover after construction
LInitVars ==
    /\ conf = [active |-> FALSE, outPSL |-> FALSE, outPSLWithName |-> FALSE]
    /\ alignment = <<>>
    /\ missedSet = {}
    /\ warned = [c \in UnknownChroms |-> 0]
    /\ bedLine = NoLine
    /\ mappedBlocks = <<>>
    /\ outBedLines = <<>>
    /\ lineOut = NoOutput

\* Liftover::convert up to the call of scan; an engine runs one session
Convert(al, outPSL, outPSLWithName) ==
    /\ ~conf.active
    /\ conf' = [active |-> TRUE, outPSL |-> outPSL, outPSLWithName |-> outPSLWithName]
    /\ alignment' = al
    /\ missedSet' = {}
    /\ warned' = [c \in UnknownChroms |-> 0]
    /\ lineOut' = [NoOutput EXCEPT !.op = "convert"]
    /\ UNCHANGED <<bedLine, mappedBlocks, outBedLines>>

\* the number of warnings about the missing sequence c among warns
RECURSIVE missedCount(_, _)
missedCount(warns, c) ==
    IF warns = <<>> THEN 0
    ELSE (IF Head(warns).kind = "missing" /\ Head(warns).name = c THEN 1 ELSE 0)
         + missedCount(Tail(warns), c)

\* the scanner has read rec into _bedLine and calls visitLine
VisitLine(rec) ==
    /\ conf.active
    /\ \A c \in UnknownChroms : warned[c] < MaxWarnings
    /\ LET r == visitLine(Engine, rec)
       IN  /\ bedLine' = r.bedLine
           /\ mappedBlocks' = r.mappedBlocks
           /\ outBedLines' = r.outBedLines
           /\ missedSet' = r.missedSet
           /\ warned' = [c \in UnknownChroms |->
                           warned[c] + missedCount(r.warnings, c)]
           /\ lineOut' = [op |-> "visitLine", inLine |-> rec, status |-> r.status,
                          warnings |-> r.warnings, liftCalls |-> r.liftCalls,
                          written |-> r.written]
    /\ UNCHANGED <<conf, alignment>>

(***************************************************************************)
(* compatible() as a function of its arguments: the calls of               *)
(* assignBlocksToIntervals, whose blocks are sorted by _srcStart, have     *)
(* newBlock._srcStart >= tgtBed._srcStart.                                 *)
(***************************************************************************)
Strands == {"+", "-"}
TgtChroms == {"tA", "tB"}
Starts == 0 .. (SeqLen - 2)
Lengths == 1 .. 2

CompatInputs ==
    { [strand |-> s,
       tgtBed |-> [strand |-> ts, chrName |-> tc, srcStart |-> tq,
                   blocks |-> pre \o <<Block(bs, bl)>>],
       newBlock |-> [strand |-> ns, chrName |-> nc, srcStart |-> nq,
                     start |-> nb, end |-> nb + nl]] :
        s \in Strands, ts \in Strands, ns \in Strands,
        tc \in TgtChroms, nc \in TgtChroms,
        tq \in 0 .. 1, nq \in 0 .. 2,
        pre \in {<<>>, <<Block(0, 1)>>},
        bs \in Starts, bl \in Lengths, nb \in Starts, nl \in Lengths }

CallsOfAssign == {i \in CompatInputs : i.newBlock.srcStart >= i.tgtBed.srcStart}

NoCall ==
    [phase |-> "idle", result |-> FALSE,
     in |-> [strand |-> "+",
             tgtBed |-> [strand |-> "+", chrName |-> "tA", srcStart |-> 0,
                         blocks |-> <<Block(0, 1)>>],
             newBlock |-> [strand |-> "+", chrName |-> "tA", srcStart |-> 0,
                           start |-> 0, end |-> 1]]]

CInitVars == compat = NoCall

CInitCall == compat \in {[NoCall EXCEPT !.phase = "call", !.in = i] : i \in CallsOfAssign}

\* the call compatible(tgtBed, newBlock) returns
Compatible ==
    /\ compat.phase = "call"
    /\ compat' = [compat EXCEPT
                    !.phase = "return",
                    !.result = compatible(compat.in.strand, compat.in.tgtBed,
                                          compat.in.newBlock)]

(***************************************************************************)
(* assignBlocksToIntervals() as a function of _mappedBlocks, _outPSL and   *)
(* the strand of _bedLine: the mapped blocks are pieces as liftInterval    *)
(* returns them for the blocks of a line of bedType 12.                    *)
(***************************************************************************)
\* the source ranges of the pieces: one base each, and one of two bases that
\* overlaps the next
PieceSources ==
    {[src |-> s, len |-> 1] : s \in Starts} \cup {[src |-> 0, len |-> 2]}

\* where the pieces lie on the target
PieceTargets == {0, 1, 2, 6}

\* the alignment blocks behind the pieces
PieceBlocks ==
    {[src |-> p.src, len |-> p.len, tchr |-> "tA", tstart |-> t, rev |-> r] :
        p \in PieceSources, t \in PieceTargets, r \in BOOLEAN}
    \cup {[src |-> 1, len |-> 1, tchr |-> "tB", tstart |-> 0, rev |-> FALSE]}

\* the piece liftInterval returns for the whole of the alignment block ab when
\* the line has the strand given
MappedPiece(outPSL, strand, ab) ==
    liftPiece(outPSL, ab,
              InputLine(KnownChrom, ab.src, ab.src + ab.len, strand, 12, FALSE, <<>>))

\* the elements of a set in some order
RECURSIVE SetToSeq(_)
SetToSeq(S) ==
    IF S = {} THEN <<>>
    ELSE <<CHOOSE x \in S : TRUE>> \o SetToSeq(S \ {CHOOSE x \in S : TRUE})

\* the lists of one to three alignment blocks
BlockLists == {SetToSeq(S) : S \in {{a, b, c} : a, b, c \in PieceBlocks}}

NoAssign ==
    [phase |-> "idle", outPSL |-> FALSE, strand |-> "+", mapped |-> <<>>,
     sorted |-> <<>>, merged |-> <<>>, flipped |-> <<>>, out |-> <<>>]

AInitVars == asg = NoAssign

AInitCall ==
    asg \in {[NoAssign EXCEPT
                !.phase = "call", !.outPSL = p, !.strand = s,
                !.mapped = [k \in 1 .. Len(bl) |-> MappedPiece(p, s, bl[k])]] :
             p \in BOOLEAN, s \in Strands, bl \in BlockLists}

\* the call assignBlocksToIntervals() returns: sorted is _mappedBlocks, merged
\* is _outBedLines after the first loop, flipped after flipBlocks, out at the end
AssignBlocksToIntervals ==
    /\ asg.phase = "call"
    /\ asg' = [asg EXCEPT
         !.phase = "return",
         !.sorted = assignBlocksToIntervals(asg.outPSL, asg.strand, asg.mapped,
                                            <<>>).mappedBlocks,
         !.merged = assignFrom(asg.outPSL, asg.strand, sortBySrcStart(asg.mapped),
                               1, <<>>, NULL_INDEX),
         !.flipped = flipBlocks(asg.outPSL,
                        relativizeAll(assignFrom(asg.outPSL, asg.strand,
                                                 sortBySrcStart(asg.mapped), 1,
                                                 <<>>, NULL_INDEX))),
         !.out = assignBlocksToIntervals(asg.outPSL, asg.strand, asg.mapped,
                                         <<>>).outBedLines]

(***************************************************************************)
(* The specifications.                                                     *)
(***************************************************************************)
MNext ==
    \/ \E fsz \in FileSizes, mf \in BOOLEAN : Create(fsz, mf) /\ UNCHANGED <<lvars, compat, asg>>
    \/ \E md \in {"read", "write"}, mf \in BOOLEAN : Open(md, mf) /\ UNCHANGED <<lvars, compat, asg>>
    \/ Close /\ UNCHANGED <<lvars, compat, asg>>
    \/ Crash /\ UNCHANGED <<lvars, compat, asg>>
    \/ \E size \in SizeT, isRoot \in BOOLEAN : AllocMem(size, isRoot) /\ UNCHANGED <<lvars, compat, asg>>
    \/ \E offset \in 0 .. fileSize : ToPtr(offset) /\ UNCHANGED <<lvars, compat, asg>>
    \/ GetRootOffset /\ UNCHANGED <<lvars, compat, asg>>

LNext ==
    \/ \E al \in Alignments, outPSL \in BOOLEAN, outPSLWithName \in BOOLEAN :
           Convert(al, outPSL, outPSLWithName) /\ UNCHANGED <<mvars, compat, asg>>
    \/ \E rec \in Records : VisitLine(rec) /\ UNCHANGED <<mvars, compat, asg>>

CNext == Compatible /\ UNCHANGED <<mvars, lvars, asg>>

ANext == AssignBlocksToIntervals /\ UNCHANGED <<mvars, lvars, compat>>

\* no file, an engine after construction, no call of compatible
Init == MInitVars /\ LInitVars /\ CInitVars /\ AInitVars

\* a call of compatible; no file, an engine after construction
InitCompat == MInitVars /\ LInitVars /\ CInitCall /\ AInitVars

\* a call of assignBlocksToIntervals; no file, an engine after construction
InitAssign == MInitVars /\ LInitVars /\ CInitVars /\ AInitCall

SpecMMap == Init /\ [][MNext]_vars

SpecLift == Init /\ [][LNext]_vars

SpecCompat == InitCompat /\ [][CNext]_vars

SpecAssign == InitAssign /\ [][ANext]_vars


(***************************************************************************)
(* Properties of the mapped store.                                         *)
(***************************************************************************)
AllocStep == last'.op = "alloc"
AllocOk == last'.op = "alloc" /\ last'.res = "ok"
AllocFailed == last'.op = "alloc" /\ last'.res # "ok"

\* C1: after any sequence of allocMem calls, for any file size, the header
\* satisfies nextOffset <= fileSize.
C1_NextOffsetWithinFile == header.nextOffset <= fileSize

\* C2, as stated: within one write session the offsets returned by successive
\* successful allocMem calls are strictly increasing, and each is a multiple of
\* the machine word size, for every requested size (0 included).
C2_OffsetsIncreasingAligned ==
    [][AllocOk =>
        /\ lastRet' % WordSize = 0
        /\ (lastRet # NoOffset => lastRet' > lastRet)]_vars

\* the request behind lastRet fits the file in true arithmetic
LastFits == lastRet + lastSize <= fileSize

\* C2, amended: every offset a successful allocMem returns is a multiple of
\* the machine word size; the offset returned after a request of n >= 1 bytes
\* that fits the file (nextOffset + n <= fileSize, in true arithmetic) is
\* strictly greater, for every such n, a word multiple or not; the offset
\* returned after a request of 0 bytes is the same offset again.
C2_OffsetsAlignedIncreasingAfterNonEmpty ==
    [][AllocOk =>
        /\ lastRet' % WordSize = 0
        /\ (lastRet # NoOffset /\ lastSize >= 1 /\ LastFits => lastRet' > lastRet)
        /\ (lastRet # NoOffset /\ lastSize = 0 => lastRet' = lastRet)]_vars

\* an allocation of 0 bytes, made after an earlier allocation of the session,
\* has left nextOffset at the offset it returned: the next call gets it again
C2_Witness ==
    /\ last.op = "alloc" /\ last.res = "ok"
    /\ last.arg = 0
    /\ last.ret = lastRet
    /\ header.nextOffset = lastRet
    /\ lastRet > alignRound(SizeofHeader)

\* C3, as stated: rootOffset is 0 until the first successful allocMem with
\* isRoot, and once it is non-zero no later operation changes it.
C3_RootStableOnceSet ==
    /\ header.rootOffset = MMAP_NULL_OFFSET
    /\ [][/\ (header.rootOffset = MMAP_NULL_OFFSET /\ ~(AllocOk /\ last'.isRoot)
                => header'.rootOffset = MMAP_NULL_OFFSET)
          /\ (header.rootOffset # MMAP_NULL_OFFSET
                => header'.rootOffset = header.rootOffset)]_vars

\* C3, amended: rootOffset is 0 at creation; a successful allocMem with isRoot
\* sets it to the offset it returns, also when a root is already registered;
\* no other operation (allocMem without isRoot, a failing allocMem, toPtr,
\* getRootOffset, open, close) changes it.
C3_RootSetByEveryRootAlloc ==
    /\ header.rootOffset = MMAP_NULL_OFFSET
    /\ [][IF AllocOk /\ last'.isRoot
          THEN header'.rootOffset = last'.ret
          ELSE header'.rootOffset = header.rootOffset]_vars

\* a later allocation without isRoot has left the registered root alone
C3_Witness ==
    /\ last.op = "alloc" /\ last.res = "ok" /\ ~last.isRoot
    /\ header.rootOffset # MMAP_NULL_OFFSET
    /\ header.rootOffset < last.ret

C6_DirtyProtocol ==
    /\ [](mode = "write" => header.dirty)
    /\ [][/\ (header.dirty /\ ~header'.dirty => last'.op = "close" /\ mode = "write")
          /\ (mode = "closed" /\ header.dirty => header'.dirty)
          /\ (last'.op = "open" /\ header.dirty
                => last'.res = "DirtyOnOpen" /\ mode' = mode /\ header' = header)
          /\ (last'.op = "open" /\ ~header.dirty
                => last'.res = "ok" /\ mode' # "closed")]_vars

\* an open has been refused after the writer went away without close()
C6_Witness ==
    /\ last.op = "open" /\ last.res = "DirtyOnOpen"
    /\ mode = "closed"
    /\ header.dirty
    /\ header.nextOffset > alignRound(SizeofHeader)

\* C7: in size_t arithmetic nextOffset never decreases across an allocMem call,
\* and a request whose true sum nextOffset + size exceeds fileSize fails with
\* the capacity error.
C7_NoWrapAround ==
    [][AllocStep =>
        /\ header'.nextOffset >= header.nextOffset
        /\ (mode = "write" /\ header.nextOffset + last'.arg > fileSize
              => last'.res = "CapacityExceeded")]_vars

(***************************************************************************)
(* Properties of the lift-over engine.                                     *)
(***************************************************************************)
VisitStep == lineOut'.op = "visitLine"

\* the line has a sequence of the source genome, lies inside it and, when
\* blocked, has blocks
ValidLine(rec) ==
    /\ getSequence(rec.chrName) # NoSequence
    /\ rec.end <= getSequence(rec.chrName)
    /\ ~(rec.bedType > 9 /\ rec.blocks = <<>>)

\* C8: within a session, a line whose chromosome the source genome does not
\* have writes no record and makes no call of liftInterval; the warning about
\* a missing name has been given exactly once as soon as a line carried the
\* name, however many lines carry it; and every line is processed as by an
\* engine of the same session that has seen no line before it.
C8_UnknownChromosomeSkipped ==
    /\ [](/\ \A c \in UnknownChroms : warned[c] = IF c \in missedSet THEN 1 ELSE 0
          /\ (lineOut.op = "visitLine"
                /\ getSequence(lineOut.inLine.chrName) = NoSequence
              => /\ lineOut.status = "missing"
                 /\ lineOut.written = NothingWritten
                 /\ lineOut.liftCalls = <<>>
                 /\ outBedLines = <<>>
                 /\ lineOut.inLine.chrName \in missedSet))
    /\ [][VisitStep =>
            LET f == visitLine(FreshEngine, lineOut'.inLine)
            IN  /\ lineOut'.status = f.status
                /\ lineOut'.written = f.written
                /\ lineOut'.liftCalls = f.liftCalls
                /\ outBedLines' = f.outBedLines
                /\ bedLine' = f.bedLine
                /\ (f.status # "missing" => lineOut'.warnings = f.warnings)]_vars

\* a second line of a missing chromosome, after a line of another missing
\* chromosome and a line that was lifted: no warning this time
C8_Witness ==
    /\ lineOut.op = "visitLine"
    /\ lineOut.status = "missing"
    /\ lineOut.warnings = <<>>
    /\ warned[lineOut.inLine.chrName] = 1
    /\ missedSet = UnknownChroms
    /\ mappedBlocks # <<>>

\* C9: a line of bedType < 12 is expanded to bedType 12 only when outPSL is
\* set; with outPSL false, a valid line of bedType <= 9 is lifted by one call
\* of liftInterval on its own window and the lines written are the pieces of
\* that call (cleaned and in the order of the source), whatever
\* outPSLWithName is.
C9_ScalarWhenUnstructured ==
    lineOut.op = "visitLine" =>
        /\ (lineOut.inLine.bedType < 12 /\ bedLine.bedType = 12 => conf.outPSL)
        /\ (~conf.outPSL /\ lineOut.inLine.bedType <= 9 /\ ValidLine(lineOut.inLine)
            => /\ bedLine = lineOut.inLine
               /\ lineOut.liftCalls = <<[start |-> lineOut.inLine.start,
                                         end |-> lineOut.inLine.end]>>
               /\ lineOut.written.lines =
                    sortBySrcStart(cleanResults(FALSE, lineOut.inLine,
                        liftInterval(FALSE, alignment, lineOut.inLine))))

(***************************************************************************)
(* Properties of compatible().                                             *)
(***************************************************************************)
\* C10: compatible(lastRecord, newBlock) is true exactly when the two have the
\* same target strand, newBlock.srcStart > lastRecord.srcStart, the two have
\* the same target chromosome and delta >= 0, delta being lastBlock.start -
\* newBlock.end when the target strand differs from the strand of the input
\* line and newBlock.start - (lastBlock.start + lastBlock.length) otherwise.
C10_CompatibleIffFourConditions ==
    compat.phase = "return" =>
        LET tgt == compat.in.tgtBed
            new == compat.in.newBlock
            lastBlock == tgt.blocks[Len(tgt.blocks)]
            delta == IF tgt.strand # compat.in.strand
                     THEN lastBlock.start - new.end
                     ELSE new.start - (lastBlock.start + lastBlock.length)
        IN  compat.result <=> /\ tgt.strand = new.strand
                              /\ new.srcStart > tgt.srcStart
                              /\ tgt.chrName = new.chrName
                              /\ delta >= 0

\* a call that returned true across a reversal: the new block ends where the
\* last block of the record starts, or before
C10_Witness ==
    /\ compat.phase = "return"
    /\ compat.result
    /\ compat.in.tgtBed.strand # compat.in.strand
    /\ Len(compat.in.tgtBed.blocks) = 2
    /\ compat.in.newBlock.end < compat.in.tgtBed.blocks[2].start

\* the length of the source sequence of the line that was visited
SourceLength == getSequence(lineOut.inLine.chrName)

\* C17: every interval handed to liftInterval lies inside the source
\* sequence, 0 <= start < end <= length of the sequence, on the scalar path
\* and for the window of every input block, and after the lift the record has
\* its own start and end again.
C17_LiftWindowsInsideSequence ==
    lineOut.op = "visitLine" /\ lineOut.status = "lifted" =>
        /\ \A i \in 1 .. Len(lineOut.liftCalls) :
             /\ 0 <= lineOut.liftCalls[i].start
             /\ lineOut.liftCalls[i].start < lineOut.liftCalls[i].end
             /\ lineOut.liftCalls[i].end <= SourceLength
        /\ bedLine.start = lineOut.inLine.start
        /\ bedLine.end = lineOut.inLine.end

(***************************************************************************)
(* Properties of assignBlocksToIntervals().                                *)
(***************************************************************************)
\* the end of the source range of a mapped block
SrcEnd(b) == b.srcStart + (b.end - b.start)

\* the source ranges of two mapped blocks overlap
SrcOverlap(a, b) == a.srcStart < SrcEnd(b) /\ b.srcStart < SrcEnd(a)

\* mapped block i of the sorted list mb overlaps its predecessor or its
\* successor on the source
Duplicate(mb, i) ==
    \/ (i > 1 /\ SrcOverlap(mb[i - 1], mb[i]))
    \/ (i < Len(mb) /\ SrcOverlap(mb[i], mb[i + 1]))

\* the number of blocks of the first k records of recs
RECURSIVE BlocksUpTo(_, _)
BlocksUpTo(recs, k) ==
    IF k = 0 THEN 0 ELSE BlocksUpTo(recs, k - 1) + Len(recs[k].blocks)

\* the place in the sorted list of the first block of record k of recs
FirstOf(recs, k) == BlocksUpTo(recs, k - 1) + 1

\* the record of recs that holds block i of the sorted list
RecordOf(recs, i) ==
    CHOOSE k \in 1 .. Len(recs) : FirstOf(recs, k) <= i /\ i < FirstOf(recs, k + 1)

\* the four conditions under which block b may follow block prev in the
\* record that block first opened, strand being the strand of the line
MayFollow(strand, first, prev, b) ==
    /\ first.strand = b.strand
    /\ b.srcStart > first.srcStart
    /\ first.chrName = b.chrName
    /\ IF first.strand # strand
       THEN prev.start - b.end >= 0
       ELSE b.start - prev.end >= 0

\* C11: assignBlocksToIntervals walks the mapped blocks in ascending srcStart
\* order and puts every block into exactly one record, in that order; block i
\* opens a record exactly when it is the first block, or _outPSL is set and
\* the block is a duplicate, or it may not follow the last block of the open
\* record; the records hold as many blocks as there are mapped blocks.
C11_EveryBlockInOneRecord ==
    asg.phase = "return" =>
        /\ Len(asg.sorted) = Len(asg.mapped)
        /\ {asg.sorted[i] : i \in 1 .. Len(asg.sorted)}
             = {asg.mapped[i] : i \in 1 .. Len(asg.mapped)}
        /\ \A i, j \in 1 .. Len(asg.sorted) :
             i < j => asg.sorted[i].srcStart <= asg.sorted[j].srcStart
        /\ BlocksUpTo(asg.merged, Len(asg.merged)) = Len(asg.sorted)
        /\ BlocksUpTo(asg.out, Len(asg.out)) = Len(asg.sorted)
        /\ Len(asg.out) = Len(asg.merged)
        /\ \A k \in 1 .. Len(asg.merged) :
             /\ Len(asg.merged[k].blocks) >= 1
             /\ Len(asg.out[k].blocks) = Len(asg.merged[k].blocks)
             /\ \A j \in 1 .. Len(asg.merged[k].blocks) :
                  LET b == asg.sorted[FirstOf(asg.merged, k) + j - 1]
                  IN  asg.merged[k].blocks[j]
                        = [start |-> b.start, length |-> b.end - b.start]
        /\ \A i \in 2 .. Len(asg.sorted) :
             LET k == RecordOf(asg.merged, i - 1)
             IN  (FirstOf(asg.merged, k + 1) = i)
                   <=> \/ (asg.outPSL /\ Duplicate(asg.sorted, i))
                       \/ ~MayFollow(asg.strand,
                                     asg.sorted[FirstOf(asg.merged, k)],
                                     asg.sorted[i - 1], asg.sorted[i])

\* three mapped blocks in structured mode: a duplicate opened the second
\* record and the third block was appended to it
C11_Witness ==
    /\ asg.phase = "return"
    /\ asg.outPSL
    /\ Len(asg.sorted) = 3
    /\ Len(asg.merged) = 2
    /\ Duplicate(asg.sorted, 2)
    /\ Len(asg.merged[2].blocks) = 2

\* the call had two mapped blocks whose source ranges overlap
TwoDupes ==
    /\ asg.phase = "return"
    /\ Len(asg.sorted) = 2
    /\ SrcOverlap(asg.sorted[1], asg.sorted[2])

\* two mapped blocks overlap on the target
TgtOverlap(a, b) == a.chrName = b.chrName /\ a.start < b.end /\ b.start < a.end

\* C12, as stated: two target pieces that overlap and whose source ranges
\* overlap give two records when _outPSL is set and one record with both
\* blocks when it is not.
C12_DupesOnOneLineUnlessStructured ==
    TwoDupes /\ TgtOverlap(asg.sorted[1], asg.sorted[2]) =>
        IF asg.outPSL
        THEN Len(asg.out) = 2
        ELSE Len(asg.out) = 1 /\ Len(asg.out[1].blocks) = 2

\* C12, amended: two pieces whose source ranges overlap give two records of
\* one block each when _outPSL is set; when it is not, they give one record
\* with both blocks if the second may follow the first (same strand and
\* chromosome, greater srcStart, after it on the target in the direction of
\* the strands, without overlap), and two records otherwise.
C12_DupesOnOneLineWhenCompatible ==
    TwoDupes =>
        IF asg.outPSL \/ ~MayFollow(asg.strand, asg.sorted[1], asg.sorted[1],
                                    asg.sorted[2])
        THEN /\ Len(asg.out) = 2
             /\ Len(asg.out[1].blocks) = 1
             /\ Len(asg.out[2].blocks) = 1
        ELSE /\ Len(asg.out) = 1
             /\ Len(asg.out[1].blocks) = 2
             /\ asg.out[1].start = Min(asg.sorted[1].start, asg.sorted[2].start)
             /\ asg.out[1].end = Max(asg.sorted[1].end, asg.sorted[2].end)

\* interval-only mode: two pieces whose source ranges overlap on one line
C12_Witness ==
    /\ TwoDupes
    /\ ~asg.outPSL
    /\ Len(asg.out) = 1
    /\ Len(asg.out[1].blocks) = 2

\* the starts of the blocks are strictly ascending, strictly descending
Ascending(blocks) ==
    \A i \in 2 .. Len(blocks) : blocks[i].start > blocks[i - 1].start

Descending(blocks) ==
    \A i \in 2 .. Len(blocks) : blocks[i].start < blocks[i - 1].start

\* C13: after assignBlocksToIntervals the block starts of every record are
\* strictly monotonic: ascending when _outPSL is not set; when it is set,
\* ascending for a record of strand '+' and descending for a record of
\* strand '-'.
C13_BlockStartsMonotonic ==
    asg.phase = "return" =>
        \A k \in 1 .. Len(asg.out) :
            IF asg.outPSL /\ asg.out[k].strand = "-"
            THEN Descending(asg.out[k].blocks)
            ELSE Ascending(asg.out[k].blocks)

\* structured mode, line and target of strand '-': a record of three blocks
\* that flipBlocks has reversed
C13_Witness ==
    /\ asg.phase = "return"
    /\ asg.outPSL
    /\ asg.strand = "-"
    /\ Len(asg.out) = 1
    /\ asg.out[1].strand = "-"
    /\ Len(asg.out[1].blocks) = 3
    /\ asg.out[1].blocks[1].start > asg.out[1].blocks[3].start
    /\ asg.merged[1].blocks[1].start < asg.merged[1].blocks[3].start

\* record k of the result holds at least two blocks of a line of strand '+'
\* that were mapped to the strand '-', in structured mode
ReverseEdgeRecord(k) ==
    /\ asg.phase = "return"
    /\ asg.outPSL
    /\ asg.strand = "+"
    /\ k \in 1 .. Len(asg.out)
    /\ asg.out[k].strand = "-"
    /\ Len(asg.out[k].blocks) >= 2

\* block j of record rec and query start j of rec are those of one mapped block
PairedWithOwnStart(rec, j) ==
    \E i \in 1 .. Len(asg.sorted) :
        /\ asg.sorted[i].srcStart = rec.psl[1].qBlockStarts[j]
        /\ asg.sorted[i].start = rec.start + rec.blocks[j].start
        /\ asg.sorted[i].end - asg.sorted[i].start = rec.blocks[j].length
        /\ asg.sorted[i].chrName = rec.chrName

\* C14, as stated: the blocks of a line of strand '+' merged into a record of
\* strand '-' in structured mode are in descending target order after
\* flipBlocks and the list of query starts has been reversed: it is in
\* descending source order; each block is paired with its own query start.
C14_ReverseEdgeQueryStartsReversed ==
    \A k \in 1 .. Len(asg.out) :
        ReverseEdgeRecord(k) =>
            /\ Descending(asg.flipped[k].blocks)
            /\ \A j \in 2 .. Len(asg.flipped[k].blocks) :
                 asg.flipped[k].psl[1].qBlockStarts[j]
                   < asg.flipped[k].psl[1].qBlockStarts[j - 1]
            /\ \A j \in 1 .. Len(asg.flipped[k].blocks) :
                 PairedWithOwnStart(asg.flipped[k], j)

\* C14, amended: such a record has its blocks in descending target order as
\* they were merged; flipBlocks reverses neither the blocks nor the list of
\* query starts, which stays in ascending source order; each block is paired
\* with its own query start.
C14_ReverseEdgeNotFlipped ==
    \A k \in 1 .. Len(asg.out) :
        ReverseEdgeRecord(k) =>
            /\ asg.flipped[k] = relativize(asg.merged[k])
            /\ Descending(asg.flipped[k].blocks)
            /\ Len(asg.flipped[k].psl[1].qBlockStarts) = Len(asg.flipped[k].blocks)
            /\ \A j \in 2 .. Len(asg.flipped[k].blocks) :
                 asg.flipped[k].psl[1].qBlockStarts[j]
                   > asg.flipped[k].psl[1].qBlockStarts[j - 1]
            /\ \A j \in 1 .. Len(asg.flipped[k].blocks) :
                 PairedWithOwnStart(asg.flipped[k], j)
            /\ asg.out[k].blocks = asg.flipped[k].blocks
            /\ asg.out[k].psl[1].qBlockStarts = asg.flipped[k].psl[1].qBlockStarts

\* two blocks of a line of strand '+' in one record of strand '-'
C14_Witness ==
    /\ ReverseEdgeRecord(1)
    /\ Len(asg.out) = 1
    /\ Len(asg.out[1].blocks) = 2
    /\ asg.out[1].psl[1].qBlockStarts[1] < asg.out[1].psl[1].qBlockStarts[2]

\* the distance on the target between blocks i - 1 and i of the record rec
TgtGap(rec, i) ==
    Max(rec.blocks[i].start - (rec.blocks[i - 1].start + rec.blocks[i - 1].length),
        rec.blocks[i - 1].start - (rec.blocks[i].start + rec.blocks[i].length))

\* the distance between the source ranges of blocks i - 1 and i of the record
\* rec, zero when they overlap
QryGap(rec, i) ==
    Max(0,
        Max(rec.psl[1].qBlockStarts[i]
              - (rec.psl[1].qBlockStarts[i - 1] + rec.blocks[i - 1].length),
            rec.psl[1].qBlockStarts[i - 1]
              - (rec.psl[1].qBlockStarts[i] + rec.blocks[i].length)))

\* the gap of the pair (i - 1, i) on a side, "t" or "q"
GapOn(side, rec, i) == IF side = "t" THEN TgtGap(rec, i) ELSE QryGap(rec, i)

\* the number of positive gaps and their sum over the pairs of blocks up to
\* block i, on the side "t" or "q"

RECURSIVE NumGaps(_, _, _)
NumGaps(side, rec, i) ==
    IF i < 2 THEN 0
    ELSE NumGaps(side, rec, i - 1) + (IF GapOn(side, rec, i) > 0 THEN 1 ELSE 0)

RECURSIVE SumGaps(_, _, _)
SumGaps(side, rec, i) ==
    IF i < 2 THEN 0
    ELSE SumGaps(side, rec, i - 1)
         + (IF GapOn(side, rec, i) > 0 THEN GapOn(side, rec, i) ELSE 0)

\* C15: after computePSLInserts, in every structured record tNumInsert is the
\* number of adjacent pairs of blocks with a positive gap on the target and
\* tBaseInsert the sum of those gaps, qNumInsert the number of adjacent pairs
\* with a positive gap between their source ranges and qBaseInsert the sum of
\* those gaps, for every target strand and query strand; computing the
\* inserts again changes nothing.
C15_InsertCounters ==
    asg.phase = "return" /\ asg.outPSL =>
        /\ computePSLInserts(asg.out) = asg.out
        /\ \A k \in 1 .. Len(asg.out) :
             LET rec == asg.out[k]
                 n == Len(rec.blocks)
             IN  /\ rec.psl[1].tNumInsert = NumGaps("t", rec, n)
                 /\ rec.psl[1].tBaseInsert = SumGaps("t", rec, n)
                 /\ rec.psl[1].qNumInsert = NumGaps("q", rec, n)
                 /\ rec.psl[1].qBaseInsert = SumGaps("q", rec, n)

\* a record of two blocks five bases apart on the target whose source ranges
\* abut: one insert of five bases on the target, none on the query
C15_Witness ==
    /\ asg.phase = "return"
    /\ asg.outPSL
    /\ Len(asg.out) = 1
    /\ Len(asg.out[1].blocks) = 2
    /\ TgtGap(asg.out[1], 2) = 5
    /\ QryGap(asg.out[1], 2) = 0
    /\ asg.out[1].psl[1].tNumInsert = 1
    /\ asg.out[1].psl[1].tBaseInsert = 5
    /\ asg.out[1].psl[1].qNumInsert = 0
    /\ asg.out[1].psl[1].qBaseInsert = 0

\* the assertions of flipBlocks on a record after the flip (lines 216-231)
FlipAssertions(rec) ==
    \A i \in 2 .. Len(rec.blocks) :
        /\ IF rec.strand = "-"
           THEN rec.blocks[i].start < rec.blocks[i - 1].start
           ELSE rec.blocks[i].start > rec.blocks[i - 1].start
        /\ IF rec.psl[1].qStrand = "-"
           THEN rec.psl[1].qBlockStarts[i] < rec.psl[1].qBlockStarts[i - 1]
           ELSE rec.psl[1].qBlockStarts[i] > rec.psl[1].qBlockStarts[i - 1]

\* the assertions of computePSLInserts on a record (lines 244 and 259)
InsertAssertions(rec) ==
    /\ Len(rec.blocks) = Len(rec.psl[1].qBlockStarts)
    /\ \A i \in 2 .. Len(rec.blocks) :
         IF rec.strand = "-"
         THEN rec.blocks[i - 1].start >= rec.blocks[i].start + rec.blocks[i].length
         ELSE rec.blocks[i].start >= rec.blocks[i - 1].start + rec.blocks[i - 1].length

\* C16: in structured mode the assertions of flipBlocks and computePSLInserts
\* hold for every record: after the flip the query starts are strictly
\* descending when qStrand is '-' and strictly ascending otherwise, the block
\* starts strictly descending when the strand is '-' and ascending otherwise,
\* and the gap on the target that computePSLInserts computes is never
\* negative.
C16_DebugAssertionsHold ==
    asg.phase = "return" /\ asg.outPSL =>
        \A k \in 1 .. Len(asg.flipped) :
            /\ Len(asg.flipped[k].psl) = 1
            /\ FlipAssertions(asg.flipped[k])
            /\ InsertAssertions(asg.flipped[k])

\* a line of strand '-' mapped to the strand '+': a record of two blocks or
\* more that flipBlocks reversed, its query starts descending
C16_Witness ==
    /\ asg.phase = "return"
    /\ asg.outPSL
    /\ asg.strand = "-"
    /\ Len(asg.flipped) >= 1
    /\ asg.flipped[1].strand = "+"
    /\ asg.flipped[1].psl[1].qStrand = "-"
    /\ Len(asg.flipped[1].blocks) >= 2
    /\ asg.flipped[1].blocks # relativize(asg.merged[1]).blocks

=============================================================================
